---- MODULE Spec2Model ----
(***************************************************************************)
(* Model of src/main.py: the website summarizer pipeline.                  *)
(*                                                                         *)
(*   display_summary(url, model_type, model_name, strategy)                *)
(*     Website(url) -> summarization_model_factory(model_type)             *)
(*                  -> generate_summary(model_name, website)               *)
(*                  -> strategy.handle_result(summary)                     *)
(*   wrapped by the log_display_summary decorator.                         *)
(*                                                                         *)
(* Texts are strings; a message built by an f-string is the sequence of    *)
(* its fragments, so that "the message contains X" is a membership test.   *)
(* API keys are sequences of characters so that the membership and prefix  *)
(* tests of the code are computed, not assumed.                            *)
(***************************************************************************)
EXTENDS Integers, Sequences, FiniteSets, TLC

VARIABLES
    pc,         \* position inside the decorated display_summary call
    args,       \* arguments of the current call
    apiKey,     \* process environment: OPENAI_API_KEY
    writable,   \* filesystem: which paths open(.., "w") can open
    fs,         \* filesystem: contents of each path
    urlCheck,   \* what validate_url did in this call
    website,    \* the Website object built by the call
    model,      \* the provider returned by summarization_model_factory
    response,   \* the answer the provider backend has for this call
    summary,    \* the value returned by generate_summary
    exc,        \* the exception travelling up to the decorator
    cause,      \* text of the failure as it was first raised
    log,        \* records emitted through configured_logger in this call
    trace,      \* stages of display_summary started in this call
    io,         \* outbound calls made in this call (env, network, backend)
    handled,    \* arguments handle_result was invoked with in this call
    delivered,  \* what reached a destination in this call
    returned    \* how the decorated call came back to its caller

vars == <<pc, args, apiKey, writable, fs, urlCheck, website, model, response,
          summary, exc, cause, log, trace, io, handled, delivered,
          returned>>

----------------------------------------------------------------------------
(* Bounds *)

\* longest completion list a backend response carries
MaxChoices == 2

----------------------------------------------------------------------------
(* Python values *)

\* Python's None where a text is expected
None == "<None>"

\* a path that does not exist
Absent == "<absent>"

NoExc == [cls |-> "None", msg |-> <<>>]

NoWebsite == [url |-> None, title |-> None, text |-> None]

NoModel == [cls |-> "None", openai |-> <<>>]

NoResponse == [kind |-> "none"]

NoArgs == [url |-> None, model_type |-> None, model_name |-> None,
           strategy |-> [cls |-> "None", file_path |-> None]]

\* str(x) as used by print
Str(x) == IF x = None THEN "None" ELSE x

Contains(seq, x) == \E i \in 1..Len(seq) : seq[i] = x

StartsWith(seq, prefix) ==
    /\ Len(seq) >= Len(prefix)
    /\ SubSeq(seq, 1, Len(prefix)) = prefix

Info(msg) == [level |-> "INFO", msg |-> msg]
Warning(msg) == [level |-> "WARNING", msg |-> msg]
Error(msg) == [level |-> "ERROR", msg |-> msg]

Raise(cls, msg) == [cls |-> cls, msg |-> msg]

----------------------------------------------------------------------------
(* Inputs *)

Urls == {"https://example.com", "example dot com"}

\* validators.url: True for a well-formed URL; for anything else a falsy
\* ValidationError object, or an exception (library version, raise mode)
validators_url(url) ==
    IF url = "https://example.com" THEN {"True"}
    ELSE {"ValidationError", "raises"}

ModelTypes == {"openai", "ollama", "bogus"}

ModelNames == {"llama3.2", "gpt-4o-mini"}

Paths == {"week1/summary.md", "out/report.md"}

FileStrategy(p) == [cls |-> "WriteToFileStrategy", file_path |-> p]
Strategy(c) == [cls |-> c, file_path |-> None]

\* strategy = None is the default of display_summary
NoStrategy == Strategy("None")

Strategies ==
    {NoStrategy, Strategy("RichConsoleStrategy"),
     Strategy("PrintToConsoleStrategy"),
     Strategy("DisplayInGUIWindowStrategy"),
     Strategy("SendToEmailStrategy")}
    \cup {FileStrategy(p) : p \in Paths}

\* OPENAI_API_KEY: unset, or a string
Key(chars) == [set |-> TRUE, chars |-> chars]
UnsetKey == [set |-> FALSE, chars |-> <<>>]

ApiKeys ==
    {UnsetKey,
     Key(<<>>),
     Key(<<"s", "k", "-", "p", "r", "o", "j", "-", "1">>),
     Key(<<"s", "k", "-", "p", "r", "o", "j", " ", "1">>),
     Key(<<"s", "k", " ", "p", "r", "o", "j", " ", "1">>),
     Key(<<"a", "\t", "b">>),
     Key(<<" ">>),
     Key(<<"a", "b", "c">>)}

Texts == {"SUMMARY", "S2"}

\* what requests.get + BeautifulSoup produce for a well-formed URL
Pages ==
    {[kind |-> "raise", cause |-> "ConnectionError"],
     [kind |-> "page", hasTitle |-> TRUE, title |-> "Example Domain",
      hasBody |-> TRUE, text |-> "Example text"],
     [kind |-> "page", hasTitle |-> FALSE, title |-> None,
      hasBody |-> TRUE, text |-> "Example text"],
     [kind |-> "page", hasTitle |-> TRUE, title |-> "Example Domain",
      hasBody |-> FALSE, text |-> None]}

RECURSIVE SeqsUpTo(_, _)
SeqsUpTo(S, n) ==
    IF n = 0 THEN {<<>>}
    ELSE LET shorter == SeqsUpTo(S, n - 1)
         IN  shorter \cup {Append(s, x) : s \in {t \in shorter : Len(t) = n - 1}, x \in S}

\* ollama.chat: raises, or a mapping with or without "message", whose
\* "content" is a text, the empty text or None
OllamaResponses ==
    {[kind |-> "raise", cause |-> "ConnectionError"],
     [kind |-> "ollama", hasMessage |-> FALSE, content |-> None]}
    \cup {[kind |-> "ollama", hasMessage |-> TRUE, content |-> c] :
            c \in Texts \cup {"", None}}

\* chat.completions.create: raises, or an object with a list of choices
OpenAIResponses ==
    {[kind |-> "raise", cause |-> "APIConnectionError"]}
    \cup {[kind |-> "openai", choices |-> cs] : cs \in SeqsUpTo(Texts, MaxChoices)}

----------------------------------------------------------------------------
(* Website.__init__ and validate_url *)

\* validate_url(url): the result of validators.url, or - when it raises -
\* the bare except clause, whose f-string reads a name `e` nothing binds
validate_url(url, outcome) ==
    IF outcome = "raises"
    THEN [exc |-> Raise("NameError", <<"name 'e' is not defined">>),
          result |-> "raised", cause |-> "validators: ValidationError"]
    ELSE [exc |-> NoExc, result |-> outcome, cause |-> None]

\* truthiness of what validate_url returns
Truthy(result) == result = "True"

\* BeautifulSoup part of Website.__init__, given the fetched page
ParsePage(url, page) ==
    IF page.kind = "raise"
    THEN [exc |-> Raise("RuntimeError",
                    <<"Error occurred while accessing/parsing url with bs4 --> ",
                      page.cause>>),
          website |-> NoWebsite, cause |-> page.cause]
    ELSE IF ~page.hasBody
    THEN [exc |-> Raise("RuntimeError",
                    <<"Error occurred while accessing/parsing url with bs4 --> ",
                      "'NoneType' object is not callable">>),
          website |-> NoWebsite, cause |-> "'NoneType' object is not callable"]
    ELSE [exc |-> NoExc,
          website |-> [url |-> url,
                       title |-> IF page.hasTitle THEN page.title
                                 ELSE "No title found",
                       text |-> page.text],
          cause |-> None]

\* faulty variant: the page is requested before the URL is validated
Website_init_FetchFirst(url, outcome, page) ==
    LET v == validate_url(url, outcome)
        get == <<[call |-> "requests.get", url |-> url]>> IN
    IF v.exc # NoExc
    THEN [exc |-> v.exc, website |-> NoWebsite, cause |-> v.cause,
          check |-> v.result, io |-> get]
    ELSE IF ~Truthy(v.result)
    THEN [exc |-> Raise("ValueError", <<"Invalid URL format">>),
          website |-> NoWebsite, cause |-> "Invalid URL format",
          check |-> v.result, io |-> get]
    ELSE LET p == ParsePage(url, page) IN
         [exc |-> p.exc, website |-> p.website, cause |-> p.cause,
          check |-> v.result, io |-> get]

\* Website(url): validation first, then one requests.get
Website_init(url, outcome, page) ==
    LET v == validate_url(url, outcome) IN
    IF v.exc # NoExc
    THEN [exc |-> v.exc, website |-> NoWebsite, cause |-> v.cause,
          check |-> v.result, io |-> <<>>]
    ELSE IF ~Truthy(v.result)
    THEN [exc |-> Raise("ValueError", <<"Invalid URL format">>),
          website |-> NoWebsite, cause |-> "Invalid URL format",
          check |-> v.result, io |-> <<>>]
    ELSE LET p == ParsePage(url, page) IN
         [exc |-> p.exc, website |-> p.website, cause |-> p.cause,
          check |-> v.result,
          io |-> <<[call |-> "requests.get", url |-> url]>>]

----------------------------------------------------------------------------
(* Prompt *)

system_prompt ==
    "You are an assistant that analyzes the contents of a website and provides a short summary, ignoring text that might be navigation related. Respond in markdown."

user_prompt_for(w) ==
    <<"You are looking at a website titled ", w.title,
      "\nThe contents of this website is as follows; \\please provide a short summary of this website in markdown. If it includes news or announcements, then summarize these too.\n\n",
      w.text>>

messages_for(w) ==
    <<[role |-> "system", content |-> <<system_prompt>>],
      [role |-> "user", content |-> user_prompt_for(w)]>>

----------------------------------------------------------------------------
(* Credential validation and the provider factory *)

\* faulty variant: the tab character is not looked for
validate_api_key_SpacesOnly(api_key) ==
    IF ~api_key.set \/ api_key.chars = <<>>
    THEN Raise("ValueError",
               <<"No API key was found - please head over to the troubleshooting notebook.">>)
    ELSE IF Contains(api_key.chars, " ")
    THEN Raise("ValueError",
               <<"API key contains spaces or tab characters. Please check your key format.">>)
    ELSE NoExc

\* validate_api_key(api_key): True, or a ValueError
validate_api_key(api_key) ==
    IF ~api_key.set \/ api_key.chars = <<>>
    THEN Raise("ValueError",
               <<"No API key was found - please head over to the troubleshooting notebook.">>)
    ELSE IF Contains(api_key.chars, " ") \/ Contains(api_key.chars, "\t")
    THEN Raise("ValueError",
               <<"API key contains spaces or tab characters. Please check your key format.">>)
    ELSE NoExc

\* the prefix initialize_openai tests with startswith
KeyPrefix == <<"s", "k", "-", "p", "r", "o", "j">>

\* initialize_openai(): reads OPENAI_API_KEY, validates it, logs, builds the
\* client. OpenAI(api_key=k) does not fail for a key that is a non-empty text.
initialize_openai(api_key) ==
    LET v == validate_api_key(api_key) IN
    IF v # NoExc
    THEN [exc |-> Raise("ValueError",
                        <<"Error occurred while validating API key --> ">> \o v.msg),
          client |-> <<>>, log |-> <<>>, cause |-> v.msg[1]]
    ELSE [exc |-> NoExc,
          client |-> <<[api_key |-> api_key.chars]>>,
          log |-> IF ~StartsWith(api_key.chars, KeyPrefix)
                  THEN <<Warning(<<"An API key was found, but it doesn't start with 'sk-proj-'; please check you're using the correct key.">>)>>
                  ELSE <<Info(<<"API key found and does not violate any standards!">>)>>,
          cause |-> None]

getenv == <<[call |-> "os.getenv", name |-> "OPENAI_API_KEY"]>>

\* faulty variant: the remote provider is built without initialize_openai,
\* the client being made on first use
summarization_model_factory_Lazy(model_type, api_key) ==
    IF model_type = "openai"
    THEN [exc |-> NoExc,
          model |-> [cls |-> "OpenAISummarizationModel",
                     openai |-> <<[api_key |-> api_key.chars]>>],
          log |-> <<>>, cause |-> None, io |-> getenv]
    ELSE IF model_type = "ollama"
    THEN [exc |-> NoExc,
          model |-> [cls |-> "OllamaSummarizationModel", openai |-> <<>>],
          log |-> <<>>, cause |-> None, io |-> <<>>]
    ELSE [exc |-> Raise("ValueError", <<"Unknown model type ", model_type>>),
          model |-> NoModel, log |-> <<>>,
          cause |-> "Unknown model type", io |-> <<>>]

\* summarization_model_factory(model_type)
summarization_model_factory(model_type, api_key) ==
    IF model_type = "openai"
    THEN LET o == initialize_openai(api_key) IN
         [exc |-> o.exc,
          model |-> IF o.exc = NoExc
                    THEN [cls |-> "OpenAISummarizationModel", openai |-> o.client]
                    ELSE NoModel,
          log |-> o.log, cause |-> o.cause, io |-> getenv]
    ELSE IF model_type = "ollama"
    THEN [exc |-> NoExc,
          model |-> [cls |-> "OllamaSummarizationModel", openai |-> <<>>],
          log |-> <<>>, cause |-> None, io |-> <<>>]
    ELSE [exc |-> Raise("ValueError", <<"Unknown model type ", model_type>>),
          model |-> NoModel, log |-> <<>>,
          cause |-> "Unknown model type", io |-> <<>>]

----------------------------------------------------------------------------
(* Providers *)

\* names bound at module level of main.py when display_summary runs
ModuleGlobals ==
    {"os", "sys", "requests", "load_dotenv", "BeautifulSoup", "OpenAI",
     "ollama", "validators", "configured_logger", "tk", "smtplib",
     "MIMEText", "MIMEMultipart", "Console", "Markdown", "ABC",
     "abstractmethod", "Website", "SummarizationModel",
     "OllamaSummarizationModel", "OpenAISummarizationModel",
     "summarization_model_factory", "log_display_summary",
     "validate_api_key", "initialize_openai", "validate_url",
     "system_prompt", "user_prompt_for", "messages_for", "Display",
     "RichConsoleStrategy", "WriteToFileStrategy", "PrintToConsoleStrategy",
     "DisplayInGUIWindowStrategy", "SendToEmailStrategy", "display_summary",
     "console_strategy", "file_strategy", "raw_print_strategy",
     "gui_window_strategy", "mail_strategy"}

ProviderFailed(text) ==
    Raise("RuntimeError", <<"API call to OpenAI model failed --> ", text>>)

\* OllamaSummarizationModel.generate_summary(model, website), r the answer
\* of ollama.chat
Ollama_generate_summary(self, model_name, w, r) ==
    LET call == <<[call |-> "ollama.chat", client |-> <<>>,
                   model |-> model_name, messages |-> messages_for(w)]>> IN
    IF r.kind = "raise"
    THEN [exc |-> ProviderFailed(r.cause), value |-> None,
          cause |-> r.cause, io |-> call]
    ELSE IF ~r.hasMessage
    THEN [exc |-> ProviderFailed("'message'"), value |-> None,
          cause |-> "'message'", io |-> call]
    ELSE [exc |-> NoExc, value |-> r.content, cause |-> None, io |-> call]

\* OpenAISummarizationModel.generate_summary(model, website), r the answer
\* of chat.completions.create. The client is read from the module-level
\* name openai_instance, not from self.openai.
OpenAI_generate_summary(self, model_name, w, r) ==
    IF "openai_instance" \notin ModuleGlobals
    THEN [exc |-> ProviderFailed("name 'openai_instance' is not defined"),
          value |-> None,
          cause |-> "name 'openai_instance' is not defined", io |-> <<>>]
    ELSE LET call == <<[call |-> "chat.completions.create",
                        client |-> <<[global |-> "openai_instance"]>>,
                        model |-> model_name, messages |-> messages_for(w)]>> IN
         IF r.kind = "raise"
         THEN [exc |-> ProviderFailed(r.cause), value |-> None,
               cause |-> r.cause, io |-> call]
         ELSE IF Len(r.choices) > 0
         THEN [exc |-> NoExc, value |-> r.choices[1], cause |-> None,
               io |-> call]
         ELSE [exc |-> ProviderFailed("API response did not contain a valid 'choices' field or it is empty."),
               value |-> None,
               cause |-> "API response did not contain a valid 'choices' field or it is empty.",
               io |-> call]

generate_summary(self, model_name, w, r) ==
    IF self.cls = "OpenAISummarizationModel"
    THEN OpenAI_generate_summary(self, model_name, w, r)
    ELSE Ollama_generate_summary(self, model_name, w, r)

Responses(self) ==
    IF self.cls = "OpenAISummarizationModel" THEN OpenAIResponses
    ELSE OllamaResponses

----------------------------------------------------------------------------
(* Display strategies *)

\* what the world outside can do to one handle_result call
SinkOutcomes(cls) ==
    CASE cls = "PrintToConsoleStrategy" -> {"ok"}
      [] cls = "RichConsoleStrategy" -> {"ok", "render error"}
      [] cls = "WriteToFileStrategy" -> {"ok", "write error"}
      [] cls = "DisplayInGUIWindowStrategy" -> {"ok", "no display"}
      [] cls = "SendToEmailStrategy" ->
            {"ok", "connect", "login", "sendmail", "quit"}

Sunk(f, d, l) == [exc |-> NoExc, cause |-> None, fs |-> f, delivered |-> d,
                  log |-> l]

SinkFailed(msg, c, f, d) ==
    [exc |-> Raise("RuntimeError", msg), cause |-> c, fs |-> f,
     delivered |-> d, log |-> <<>>]

\* PrintToConsoleStrategy.handle_result
Print_handle_result(self, s, outcome, f, w) ==
    Sunk(f, <<[dest |-> "stdout", text |-> Str(s)]>>, <<>>)

\* RichConsoleStrategy.handle_result: no try block of its own
Rich_handle_result(self, s, outcome, f, w) ==
    IF outcome = "ok"
    THEN Sunk(f, <<[dest |-> "terminal", text |-> s]>>, <<>>)
    ELSE [exc |-> Raise("Exception", <<"render error">>),
          cause |-> "render error", fs |-> f, delivered |-> <<>>,
          log |-> <<>>]

\* WriteToFileStrategy.handle_result: open(.., "w") truncates, then write
File_handle_result(self, s, outcome, f, w) ==
    LET path == "week1/summary.md"
        prefix == <<"Failed to write summary to file ", self.file_path, " --> ">>
        truncated == [f EXCEPT ![path] = ""]
    IN  IF ~w[path]
        THEN SinkFailed(Append(prefix, "[Errno 13] Permission denied"),
                        "[Errno 13] Permission denied", f, <<>>)
        ELSE IF s = None
        THEN SinkFailed(Append(prefix, "write() argument must be str, not None"),
                        "write() argument must be str, not None", truncated, <<>>)
        ELSE IF outcome = "write error"
        THEN SinkFailed(Append(prefix, "[Errno 28] No space left on device"),
                        "[Errno 28] No space left on device", truncated, <<>>)
        ELSE Sunk([f EXCEPT ![path] = s],
                  <<[dest |-> path, text |-> s]>>,
                  <<Info(<<"Summary written to week1/summary.md">>)>>)

\* DisplayInGUIWindowStrategy.handle_result
GUI_handle_result(self, s, outcome, f, w) ==
    IF outcome = "ok"
    THEN Sunk(f, <<[dest |-> "window", text |-> s]>>, <<>>)
    ELSE SinkFailed(<<"Failed to display summary in GUI window --> ", "no display name">>,
                    "no display name", f, <<>>)

\* SendToEmailStrategy.handle_result: the message is on its way once
\* sendmail returned; leaving the with block (QUIT) and the print follow it
Mail_handle_result(self, s, outcome, f, w) ==
    LET mail == <<[dest |-> "smtp", text |-> s]>> IN
    IF s = None
    THEN SinkFailed(<<"Failed to send summary email: ", "'NoneType' object has no attribute 'encode'">>,
                    "'NoneType' object has no attribute 'encode'", f, <<>>)
    ELSE IF outcome = "ok"
    THEN Sunk(f, mail, <<>>)
    ELSE IF outcome = "quit"
    THEN SinkFailed(<<"Failed to send summary email: ", outcome>>, outcome, f, mail)
    ELSE SinkFailed(<<"Failed to send summary email: ", outcome>>, outcome, f, <<>>)

\* the strategy display_summary dispatches to: `if strategy:` is false for
\* None only, and then a PrintToConsoleStrategy is made
Dispatch(strategy) ==
    IF strategy.cls = "None" THEN Strategy("PrintToConsoleStrategy")
    ELSE strategy

handle_result(self, s, outcome, f, w) ==
    CASE self.cls = "PrintToConsoleStrategy" -> Print_handle_result(self, s, outcome, f, w)
      [] self.cls = "RichConsoleStrategy" -> Rich_handle_result(self, s, outcome, f, w)
      [] self.cls = "WriteToFileStrategy" -> File_handle_result(self, s, outcome, f, w)
      [] self.cls = "DisplayInGUIWindowStrategy" -> GUI_handle_result(self, s, outcome, f, w)
      [] self.cls = "SendToEmailStrategy" -> Mail_handle_result(self, s, outcome, f, w)

----------------------------------------------------------------------------
(* log_display_summary and display_summary *)

\* except Exception: every class raised here derives from Exception
IsException(e) ==
    e.cls \in {"Exception", "ValueError", "RuntimeError", "NameError"}

\* wrapper(), entering the try block
wrapper_enter == <<Info(<<"Attempting to display summary of website">>)>>

\* faulty variant: the except clause swallows the exception without a record
wrapper_exit_Silent(e) ==
    IF e = NoExc
    THEN [log |-> <<Info(<<"Successfully displayed summary for website">>)>>,
          result |-> "None"]
    ELSE [log |-> <<>>, result |-> "None"]

\* wrapper(), after func returned or raised e
wrapper_exit(e) ==
    IF e = NoExc
    THEN [log |-> <<Info(<<"Successfully displayed summary for website">>)>>,
          result |-> "None"]
    ELSE IF IsException(e)
    THEN [log |-> <<Error(<<"Failed to generate & display summary --> ">> \o e.msg)>>,
          result |-> "None"]
    ELSE [log |-> <<>>, result |-> "raised"]

\* faulty variant: a failed statement does not leave the body
NextStage_IgnoreFailure(stage, failed) ==
    CASE stage = "load" -> "factory"
      [] stage = "factory" -> "summarize"
      [] stage = "summarize" -> "deliver"
      [] stage = "deliver" -> "return"

\* the statements of display_summary run top to bottom; an exception leaves
\* the body at once
NextStage(stage, failed) ==
    IF failed THEN "return"
    ELSE CASE stage = "load" -> "factory"
           [] stage = "factory" -> "summarize"
           [] stage = "summarize" -> "deliver"
           [] stage = "deliver" -> "return"

Init ==
    /\ pc = "idle"
    /\ args = NoArgs
    /\ apiKey \in ApiKeys
    /\ writable \in [Paths -> BOOLEAN]
    /\ fs = [p \in Paths |-> Absent]
    /\ urlCheck = "none"
    /\ website = NoWebsite
    /\ model = NoModel
    /\ response = NoResponse
    /\ summary = None
    /\ exc = NoExc
    /\ cause = None
    /\ log = <<>>
    /\ trace = <<>>
    /\ io = <<>>
    /\ handled = <<>>
    /\ delivered = <<>>
    /\ returned = "pending"

\* display_summary(url, model_type, model_name, strategy) is called
Call ==
    /\ pc \in {"idle", "done"}
    /\ \E u \in Urls, t \in ModelTypes, n \in ModelNames, s \in Strategies :
          args' = [url |-> u, model_type |-> t, model_name |-> n, strategy |-> s]
    /\ pc' = "load"
    /\ log' = wrapper_enter
    /\ urlCheck' = "none"
    /\ website' = NoWebsite
    /\ model' = NoModel
    /\ response' = NoResponse
    /\ summary' = None
    /\ exc' = NoExc
    /\ cause' = None
    /\ trace' = <<>>
    /\ io' = <<>>
    /\ handled' = <<>>
    /\ delivered' = <<>>
    /\ returned' = "pending"
    /\ UNCHANGED <<apiKey, writable, fs>>

\* website = Website(url)
LoadPage ==
    /\ pc = "load"
    /\ \E outcome \in validators_url(args.url), page \in Pages :
          LET r == Website_init(args.url, outcome, page) IN
          /\ urlCheck' = r.check
          /\ website' = r.website
          /\ exc' = r.exc
          /\ cause' = r.cause
          /\ io' = io \o r.io
          /\ pc' = NextStage("load", r.exc # NoExc)
    /\ trace' = Append(trace, "load")
    /\ UNCHANGED <<args, apiKey, writable, fs, model, response, summary, log,
                   handled, delivered, returned>>

\* summarization_model = summarization_model_factory(model_type)
Construct ==
    /\ pc = "factory"
    /\ LET r == summarization_model_factory(args.model_type, apiKey) IN
          /\ model' = r.model
          /\ exc' = r.exc
          /\ cause' = r.cause
          /\ log' = log \o r.log
          /\ io' = io \o r.io
          /\ pc' = NextStage("factory", r.exc # NoExc)
    /\ trace' = Append(trace, "factory")
    /\ UNCHANGED <<args, apiKey, writable, fs, urlCheck, website, response,
                   summary, handled, delivered, returned>>

\* summary = summarization_model.generate_summary(model_name, website)
Summarize ==
    /\ pc = "summarize"
    /\ \E r \in Responses(model) :
          LET g == generate_summary(model, args.model_name, website, r) IN
          /\ response' = r
          /\ summary' = g.value
          /\ exc' = g.exc
          /\ cause' = g.cause
          /\ io' = io \o g.io
          /\ pc' = NextStage("summarize", g.exc # NoExc)
    /\ trace' = Append(trace, "summarize")
    /\ UNCHANGED <<args, apiKey, writable, fs, urlCheck, website, model, log,
                   handled, delivered, returned>>

\* strategy.handle_result(summary), or PrintToConsoleStrategy's
Deliver ==
    /\ pc = "deliver"
    /\ LET sink == Dispatch(args.strategy) IN
       \E outcome \in SinkOutcomes(sink.cls) :
          LET h == handle_result(sink, summary, outcome, fs, writable) IN
          /\ fs' = h.fs
          /\ delivered' = delivered \o h.delivered
          /\ exc' = h.exc
          /\ cause' = h.cause
          /\ log' = log \o h.log
          /\ pc' = NextStage("deliver", h.exc # NoExc)
    /\ handled' = Append(handled, summary)
    /\ trace' = Append(trace, "deliver")
    /\ UNCHANGED <<args, apiKey, writable, urlCheck, website, model, response,
                   summary, io, returned>>

\* the decorator's wrapper gets control back
Return ==
    /\ pc = "return"
    /\ LET w == wrapper_exit(exc) IN
          /\ log' = log \o w.log
          /\ returned' = w.result
    /\ pc' = "done"
    /\ UNCHANGED <<args, apiKey, writable, fs, urlCheck, website, model,
                   response, summary, exc, cause, trace, io, handled,
                   delivered>>

Next == Call \/ LoadPage \/ Construct \/ Summarize \/ Deliver \/ Return

Spec == Init /\ [][Next]_vars

TypeOK ==
    /\ pc \in {"idle", "load", "factory", "summarize", "deliver", "return", "done"}
    /\ returned \in {"pending", "None", "raised"}
    /\ fs \in [Paths -> Texts \cup {"", Absent}]

----------------------------------------------------------------------------
(* Vocabulary of the properties *)

Errors == SelectSeq(log, LAMBDA r : r.level = "ERROR")
Warnings == SelectSeq(log, LAMBDA r : r.level = "WARNING")

Envelope == "Failed to generate & display summary --> "

Ran(stage) == Contains(trace, stage)

Finished == pc = "done"

Calls(name) == SelectSeq(io, LAMBDA c : c.call = name)

StageOrder == <<"load", "factory", "summarize", "deliver">>

Sink == Dispatch(args.strategy)

\* a key is unusable: absent, empty, or holding a space or a tab
BadKey(k) ==
    \/ ~k.set
    \/ Len(k.chars) = 0
    \/ \E i \in 1..Len(k.chars) : k.chars[i] \in {" ", "\t"}

\* a well-formed answer that carries no completion, no message or no text
ContentLess(r) ==
    \/ r.kind = "openai" /\ Len(r.choices) = 0
    \/ r.kind = "ollama" /\ (~r.hasMessage \/ r.content \in {"", None})

----------------------------------------------------------------------------
(* C1: whenever a stage of display_summary fails, the call comes back to   *)
(* its caller with None, no exception leaves it, and exactly one ERROR     *)
(* record is logged, made of the 'Failed to generate & display summary'    *)
(* envelope and the text of the failure as it was first raised.            *)
C1_FailureLoggedWithCause ==
    (Finished /\ exc # NoExc) =>
        /\ returned = "None"
        /\ Len(Errors) = 1
        /\ Errors[1].msg[1] = Envelope
        /\ Contains(Errors[1].msg, cause)

(* C2 as stated: on success handle_result is invoked exactly once with the *)
(* summary and one delivery is made; on any failure, a failure inside the  *)
(* sink included, nothing has reached a destination and one diagnostic is  *)
(* recorded.                                                               *)
C2_NothingDeliveredOnAnyFailure ==
    Finished =>
        /\ exc = NoExc =>
              /\ handled = <<summary>>
              /\ Len(delivered) = 1
              /\ Errors = <<>>
        /\ exc # NoExc =>
              /\ delivered = <<>>
              /\ Len(Errors) = 1

(* C2 amended: on success handle_result is invoked exactly once with the   *)
(* string generate_summary returned and one delivery is made; on any       *)
(* failure exactly one diagnostic is recorded and handle_result was        *)
(* invoked at most once; when the failing stage precedes the sink,         *)
(* handle_result was never invoked and nothing has reached a destination   *)
(* (a sink that fails may already have sent the summary).                  *)
C2_DeliveredOnceOrDiagnosed ==
    Finished =>
        /\ exc = NoExc =>
              /\ handled = <<summary>>
              /\ Len(delivered) = 1
              /\ Errors = <<>>
        /\ exc # NoExc =>
              /\ Len(Errors) = 1
              /\ Len(handled) <= 1
              /\ ~Ran("deliver") => (handled = <<>> /\ delivered = <<>>)

\* a provider failure: the sink was never invoked and one diagnostic exists
C2_Witness ==
    /\ Finished
    /\ exc # NoExc
    /\ trace = <<"load", "factory", "summarize">>
    /\ response.kind = "raise"
    /\ handled = <<>>
    /\ Len(Errors) = 1

(* C3: after a WriteToFileStrategy configured with path P has handled a    *)
(* summary without failing, the file at P holds exactly that summary.      *)
C3_FileAtConfiguredPathHoldsSummary ==
    (Ran("deliver") /\ Sink.cls = "WriteToFileStrategy" /\ exc = NoExc) =>
        fs[Sink.file_path] = summary

(* C4: a WriteToFileStrategy configured with an unwritable path P fails in *)
(* handle_result with an error whose message names P, whatever the summary *)
(* and whatever other paths are writable.                                  *)
C4_UnwritablePathFails ==
    (Ran("deliver") /\ Sink.cls = "WriteToFileStrategy"
        /\ ~writable[Sink.file_path]) =>
        /\ exc.cls = "RuntimeError"
        /\ Contains(exc.msg, Sink.file_path)

(* C5: for both providers, when the backend answers with no completion, no *)
(* message or no content, generate_summary fails; it never hands an empty  *)
(* or null summary to its caller.                                          *)
C5_ContentLessResponseFails ==
    (Ran("summarize") /\ ContentLess(response)) =>
        /\ exc # NoExc
        /\ pc \in {"return", "done"}
        /\ handled = <<>>

(* C6: an OpenAISummarizationModel built from a validated key, asked for    *)
(* a summary while the backend has a non-empty completion list, sends the  *)
(* request through the client built from that key and returns the text of  *)
(* the first completion.                                                   *)
C6_RemoteReturnsFirstCompletion ==
    (Ran("summarize") /\ model.cls = "OpenAISummarizationModel"
        /\ response.kind = "openai" /\ Len(response.choices) > 0) =>
        /\ summary = response.choices[1]
        /\ Len(Calls("chat.completions.create")) = 1
        /\ Calls("chat.completions.create")[1].client = model.openai

(* C7: the factory returns a provider for "openai" and "ollama" only and   *)
(* raises the unknown-type error for any other kind; for "openai" the key  *)
(* is validated during construction, so with an absent, empty or           *)
(* space/tab-holding key it raises and returns no provider; "ollama" is    *)
(* returned without the key being read.                                    *)
C7_FactoryChecksRemoteCredential ==
    Ran("factory") =>
        LET t == args.model_type IN
        /\ model # NoModel <=>
              (t = "ollama" \/ (t = "openai" /\ ~BadKey(apiKey)))
        /\ model = NoModel =>
              /\ pc \in {"return", "done"}
              /\ exc.cls = "ValueError"
              /\ t \notin {"openai", "ollama"} =>
                    exc.msg = <<"Unknown model type ", t>>
        /\ (t = "openai" /\ model # NoModel) =>
              /\ model.cls = "OpenAISummarizationModel"
              /\ model.openai = <<[api_key |-> apiKey.chars]>>
        /\ t = "ollama" =>
              /\ model.cls = "OllamaSummarizationModel"
              /\ Calls("os.getenv") = <<>>

\* the remote kind was asked for with a key holding a space: no provider
C7_Witness ==
    /\ Ran("factory")
    /\ args.model_type = "openai"
    /\ apiKey.set
    /\ Contains(apiKey.chars, " ")
    /\ model = NoModel
    /\ exc # NoExc

(* C8: the key rules apply in order: an absent or empty key fails with the *)
(* missing-key error; otherwise a key holding a space or a tab fails with  *)
(* the malformed-key error, whatever its prefix; otherwise the key is      *)
(* accepted and a client is built, and a key without the expected prefix   *)
(* costs one WARNING record and no error.                                  *)
C8_CredentialRulesInOrder ==
    (trace = <<"load", "factory">> /\ args.model_type = "openai") =>
        IF ~apiKey.set \/ Len(apiKey.chars) = 0
        THEN /\ exc.cls = "ValueError"
             /\ Contains(exc.msg, "No API key was found - please head over to the troubleshooting notebook.")
             /\ model = NoModel
        ELSE IF \E i \in 1..Len(apiKey.chars) : apiKey.chars[i] \in {" ", "\t"}
        THEN /\ exc.cls = "ValueError"
             /\ Contains(exc.msg, "API key contains spaces or tab characters. Please check your key format.")
             /\ model = NoModel
        ELSE /\ exc = NoExc
             /\ pc = "summarize"
             /\ model.openai = <<[api_key |-> apiKey.chars]>>
             /\ Errors = <<>>
             /\ Len(Warnings) =
                   (IF /\ Len(apiKey.chars) >= Len(KeyPrefix)
                       /\ \A i \in 1..Len(KeyPrefix) :
                             apiKey.chars[i] = KeyPrefix[i]
                    THEN 0 ELSE 1)

\* a key without the prefix was accepted with a warning
C8_Witness ==
    /\ trace = <<"load", "factory">>
    /\ args.model_type = "openai"
    /\ apiKey.chars = <<"a", "b", "c">>
    /\ model.cls = "OpenAISummarizationModel"
    /\ Len(Warnings) = 1

(* C9: when validate_url returns a falsy result, Website(url) raises the   *)
(* invalid-URL error without any requests.get, and display_summary builds  *)
(* no provider, calls no backend and invokes no sink.                      *)
C9_InvalidUrlStopsBeforeNetwork ==
    urlCheck = "ValidationError" =>
        /\ exc = Raise("ValueError", <<"Invalid URL format">>)
        /\ io = <<>>
        /\ website = NoWebsite
        /\ trace = <<"load">>
        /\ model = NoModel
        /\ handled = <<>>
        /\ delivered = <<>>

\* a call with a malformed URL has come back
C9_Witness ==
    /\ urlCheck = "ValidationError"
    /\ Finished
    /\ Len(Errors) = 1

\* position of the pipeline, as a number of completed stages
Completed ==
    CASE pc = "load" -> 0
      [] pc = "factory" -> 1
      [] pc = "summarize" -> 2
      [] pc = "deliver" -> 3
      [] OTHER -> Len(trace)

(* C10: inside one call the stages run in the order load, construct,       *)
(* summarize, deliver, each at most once, each only after the one before   *)
(* it succeeded, and after a failure no further stage starts and no        *)
(* further outbound call is made.                                          *)
C10_StagesInOrderOnce ==
    /\ [](/\ Len(trace) <= Len(StageOrder)
          /\ trace = SubSeq(StageOrder, 1, Len(trace))
          /\ Len(trace) = Completed
          /\ pc \in {"load", "factory", "summarize", "deliver"} => exc = NoExc
          /\ Len(Calls("requests.get")) <= 1
          /\ Len(Calls("ollama.chat")) + Len(Calls("chat.completions.create")) <= 1
          /\ Len(handled) <= 1
          /\ Calls("requests.get") # <<>> => Ran("load")
          /\ Calls("os.getenv") # <<>> => Ran("factory")
          /\ Calls("ollama.chat") # <<>> => Ran("summarize")
          /\ handled # <<>> => Ran("deliver"))
    /\ [][(exc # NoExc /\ pc' # "load") =>
            (trace' = trace /\ io' = io /\ handled' = handled
                /\ delivered' = delivered /\ fs' = fs)]_vars

\* the page was fetched, then construction failed on the key: no backend
\* call, no sink
C10_Witness ==
    /\ Finished
    /\ trace = <<"load", "factory">>
    /\ args.model_type = "openai"
    /\ BadKey(apiKey)
    /\ Len(Calls("requests.get")) = 1
    /\ Calls("ollama.chat") = <<>>
    /\ Calls("chat.completions.create") = <<>>
    /\ handled = <<>>

====
